---- MODULE Spec2Model ----
(***************************************************************************)
(* A model of mcp-server-time: the process supervisor (cmd/main.go,        *)
(* internal/app/app.go), the HTTP server with its two listeners            *)
(* (internal/server/server.go) and the tool handlers of the tools package. *)
(***************************************************************************)
EXTENDS Integers, Sequences, FiniteSets, Bags, TLC

\* ------------------------------------------------------------------ bounds
MaxClock == 3      \* the clock readings the model distinguishes: 0..MaxClock
MaxTimeout == 1    \* GracefulShutdownTimeout ranges over 1..MaxTimeout ticks
MaxConns == 1      \* in-flight requests per listener
MaxCalls == 2      \* tool invocations, all of which may run concurrently
MaxReqs == 2       \* HTTP requests served

\* --------------------------------------------------------------- constants
Nil == "nil"
ErrServerClosed == "http: Server closed"
ErrBind == "listen: address already in use"
ErrServe == "accept: serve failure"
ErrClose == "close: listener close failure"
DeadlineExceeded == "context deadline exceeded"
ErrInit == "failed to load configuration"
NoExit == 0 - 1
ServerPort == 8080
AltMetricsPort == 9090

Listeners == {"main", "metrics"}
Signals == {"SIGINT", "SIGTERM"}

\* ----------------------------------------------------------------- logger
\* zapcore's levels, as numbered by zap.
DebugLevel == 0 - 1
InfoLevel == 0
WarnLevel == 1
ErrorLevel == 2
FatalLevel == 5

\* logger.go 33-48: the configured level name to a zapcore level; a name
\* outside the five falls back to info.
parseLogLevel(level) ==
    CASE level = "debug" -> DebugLevel
      [] level = "info" -> InfoLevel
      [] level = "warn" -> WarnLevel
      [] level = "error" -> ErrorLevel
      [] level = "fatal" -> FatalLevel
      [] OTHER -> InfoLevel

\* logger.go 13-30, 51-62: the logger built from the logging configuration
\* writes the entries at or above the parsed level.
LoggerNew(logging) == [level |-> parseLogLevel(logging.level)]

\* No logger before app.New has built one.
NoLogger == [level |-> FatalLevel + 1]

\* zap's level filter: an entry of level lvl is written iff lvl is at or
\* above the logger's level.
Enabled(lg, lvl) == lvl >= lg.level

\* The level names of a configuration: the documented one and the one that
\* silences error entries.
LogLevels == {"info", "fatal"}

\* A level name that silences error entries, and one parseLogLevel does not
\* know and takes for info.
AllLogLevels == {"fatal", "verbose"}

\* config.Config as far as the server and the supervisor read it.
Configs ==
    [metricsEnabled : BOOLEAN,
     serverPort : {ServerPort},
     metricsPort : {ServerPort, AltMetricsPort},
     metricsPath : {"/metrics"},
     serverName : {"time-mcp-server"},
     version : {"1.0.0"},
     timeout : 1..MaxTimeout,
     logging : [level : LogLevels]]

\* The configurations the HTTP surface is checked with: metrics on or off, on
\* the server's port or on another, under either of two paths.
WebConfigs ==
    [metricsEnabled : BOOLEAN,
     serverPort : {ServerPort},
     metricsPort : {ServerPort, AltMetricsPort},
     metricsPath : {"/metrics", "/stats"},
     serverName : {"time-mcp-server"},
     version : {"1.0.0"},
     timeout : {1},
     logging : [level : {"info"}]]

VARIABLES
    cfg,          \* the loaded configuration
    clock,        \* wall clock, in ticks
    mainPc,       \* main(): "new", "run", "exited"
    exitStatus,   \* the process exit status, NoExit while running
    httpServer,   \* the HTTPServer built by NewHTTPServer
    logger,       \* the zap logger built by logger.New, shared by every component
    runPc,        \* App.Run's position
    shutting,     \* the listener whose http.Server.Shutdown is running, "" if none
    runResult,    \* the error App.Run returned
    deadline,     \* the deadline of shutdownCtx, -1 before it exists
    startPc,      \* the goroutine of Run that calls HTTPServer.Start
    startErr,     \* the error Server.ListenAndServe returned to Start
    metricsPc,    \* the goroutine of Start that serves the metrics listener
    listener,     \* per listener: "none", "serving", "failed", "closed"
    active,       \* per listener: in-flight requests
    inShutdown,   \* per listener: http.Server.Shutdown has been initiated
    lnerr,        \* per listener: the error of closing its socket
    shutdownRes,  \* per listener: what http.Server.Shutdown returned, "none" before
    serverErr,    \* channel serverErr (buffer 1)
    quit,         \* channel quit (buffer 1)
    log,          \* what reaches stderr, in order: the error-level entries the
                  \* logger writes and the lines main prints
    sigSeen,      \* history: a termination signal has been delivered
    failedEarly,  \* history: listeners whose ListenAndServe failed before any signal
    tools,        \* the tools registered on the MCP server: name -> handler
    calls,        \* per tool invocation: its position, tool and input
    locals,       \* per handler frame: the handler's local variables result, err
    response,     \* per tool invocation: what the handler returned
    metrics,      \* the metrics registry: observations per (metric, name, status)
    svcLog,       \* history, per invocation: the service calls it made
    emitted,      \* history, per invocation: the metric observations it recorded
    open,         \* the requests whose transport handler is running (a bag)
    last,         \* the last HTTP request whose handler returned, with its response
                  \* and the reading of time.Now() the handler took (0: none)
    nreq,         \* HTTP requests taken by a listener
    nvia,         \* history: requests taken by a handler built by withMetrics
    nrec,         \* transport-request observations recorded in the metrics registry
    probe         \* the last call of a time operation made directly, with its result

envVars == <<cfg, clock>>
mainVars == <<mainPc, exitStatus>>
runVars == <<runPc, shutting, runResult, deadline>>
goVars == <<startPc, startErr, metricsPc>>
lsnVars == <<listener, active, inShutdown, lnerr, shutdownRes>>
chanVars == <<serverErr, quit>>
histVars == <<sigSeen, failedEarly>>

builtVars == <<httpServer, logger, tools>>
toolVars == <<calls, locals, response, metrics, svcLog, emitted>>

lifeVars == <<mainVars, builtVars, runVars, goVars, lsnVars, chanVars, log, histVars>>

webVars == <<open, last, nreq, nvia, nrec>>

timeVars == <<probe>>

vars == <<envVars, lifeVars, toolVars, webVars, timeVars>>

Running == mainPc = "run"

LogEntry(msg, err) == [msg |-> msg, err |-> err]

Logged(msg, err) == \E i \in 1..Len(log) : log[i] = LogEntry(msg, err)

\* logger.Error(msg, zap.Error(err)) on the output out: the entry is written
\* iff the logger's level admits error entries.
LoggerError(lg, out, msg, err) ==
    IF Enabled(lg, ErrorLevel) THEN Append(out, LogEntry(msg, err)) ELSE out

\* ------------------------------------------------------------- time types
\* An instant: the seconds since the epoch and the nanoseconds within the
\* second.
Instant(sec, nsec) == [sec |-> sec, nsec |-> nsec]

\* A time text as written: the kind of text, the wall-clock reading it shows
\* (in seconds), the fraction of a second it shows (in nanoseconds) and the
\* zone offset it shows.  For a decimal count ("integer") sec and nsec are the
\* digits before and within the last off digits.  Kind "RFC3339" is a date-time
\* text of either layout of types.go 58-61: the two write the same text for an
\* instant on a whole second.  EmptyText is the empty string.
TextNs(kind, sec, nsec, off) == [kind |-> kind, sec |-> sec, nsec |-> nsec, off |-> off]
Text(kind, sec, off) == TextNs(kind, sec, 0, off)
EmptyText == Text("", 0, 0)
Garbage == Text("garbage", 0, 0)

\* types.go 36-42: the format tokens.
FormatTypes ==
    {"RFC3339", "RFC3339Nano", "Unix", "UnixMilli", "UnixMicro", "UnixNano", "Layout"}

\* An IsValidFormat that folds the case of the token first.
FoldCase(format) ==
    CASE format = "rfc3339" -> "RFC3339"
      [] format = "unix" -> "Unix"
      [] OTHER -> format
IsValidFormatFolded(format) == FoldCase(format) \in FormatTypes

\* types.go 45-53.
IsValidFormat(format) == format \in FormatTypes

\* types.go 56-65: RFC3339 is the fallback layout.
GetFormatLayout(format) ==
    CASE format = "RFC3339" -> "2006-01-02T15:04:05Z07:00"
      [] format = "RFC3339Nano" -> "2006-01-02T15:04:05.999999999Z07:00"
      [] OTHER -> "2006-01-02T15:04:05Z07:00"

\* types.go 95-101, 103-109, 111-117, 8-16: the zero values of the result records.
ZeroGetTimeResult ==
    [FormattedTime |-> EmptyText, Timezone |-> "", Format |-> "", UnixTimestamp |-> 0]
ZeroFormatTimeResult ==
    [FormattedTime |-> EmptyText, Timezone |-> "", Format |-> "", UnixTimestamp |-> 0]
ZeroParseTimeResult ==
    [UnixTimestamp |-> 0, RFC3339 |-> EmptyText, Timezone |-> "", IsDST |-> FALSE]
ZeroTimezoneInfo ==
    [Name |-> "", Abbreviation |-> "", Offset |-> "", OffsetSeconds |-> 0,
     IsDST |-> FALSE, DST |-> <<>>]

\* The format strings a caller may send: the tokens, the empty string, tokens
\* in another case, a token with a trailing blank, an unknown name.
FormatStrings == FormatTypes \cup {"", "rfc3339", "unix", "Unix ", "ISO8601"}

\* tech_context.md 163-169: the configured list of supported formats, and
\* other lists a configuration may carry.
ExampleSupportedFormats ==
    {"RFC3339", "RFC3339Nano", "Unix", "UnixMilli", "UnixMicro", "UnixNano"}
SupportedFormatLists == {ExampleSupportedFormats, {"RFC3339"}, {}}

\* A call of a time operation: the operation, its arguments, its result.
Probe(op, in, out) == [op |-> op, in |-> in, out |-> out]
NoProbe == Probe("", "", "")

\* ----------------------------------------------------------- time service
\* The TimeService behind the handlers, by its contract: each operation is a
\* function of its input, the clock reading and the host's timezone database.
ErrInvalidTimezone == "invalid timezone"
ErrInvalidFormat == "invalid time format"
ErrParseFailure == "failed to parse time string"
DefaultTimezone == "UTC"
DefaultFormat == "RFC3339"
ValidZones == {"UTC", "America/New_York"}

Ok(result) == [result |-> result, err |-> Nil]
Failed(zero, err) == [result |-> zero, err |-> err]

ResolveZone(tz) == IF tz = "" THEN DefaultTimezone ELSE tz
ResolveFormat(f) == IF f = "" THEN DefaultFormat ELSE f

\* The host's timezone database, for the zones and the years of the model's
\* instants.  America/New_York keeps UTC-5 and moves its clocks one hour ahead
\* within the daylight-saving period of a year: in 1970 from 26 April 07:00 UTC
\* to 25 October 06:00 UTC, in 2024 from 10 March 07:00 UTC to 3 November
\* 06:00 UTC.  UTC has no daylight-saving period.
\* types.go 19-23: a daylight-saving period; Start and End in epoch seconds,
\* Saving in seconds.
DSTInfo(start, end, saving) == [Start |-> start, End |-> end, Saving |-> saving]
DSTPeriods(tz) ==
    IF tz = "America/New_York"
    THEN {DSTInfo(9961200, 25682400, 3600), DSTInfo(1710054000, 1730613600, 3600)}
    ELSE {}
IsDST(tz, sec) == \E p \in DSTPeriods(tz) : p.Start <= sec /\ sec < p.End
ZoneOffset(tz, sec) ==
    (IF tz = "America/New_York" THEN 0 - 18000 ELSE 0)
        + (IF IsDST(tz, sec) THEN 3600 ELSE 0)
ZoneAbbreviation(tz, sec) ==
    IF tz = "America/New_York" THEN (IF IsDST(tz, sec) THEN "EDT" ELSE "EST") ELSE "UTC"
ZoneOffsetText(tz, sec) ==
    IF tz = "America/New_York" THEN (IF IsDST(tz, sec) THEN "-04:00" ELSE "-05:00")
    ELSE "+00:00"

\* The daylight-saving period that is active at an instant or comes next after
\* it: a sequence with the period, or the empty sequence (the nil pointer of
\* types.go 14) when the database has none.
DSTPeriod(tz, sec) ==
    LET later == {p \in DSTPeriods(tz) : sec < p.End}
    IN  IF later = {} THEN <<>>
        ELSE <<CHOOSE p \in later : \A q \in later : p.End <= q.End>>

\* The formats that render an instant as a decimal count of a unit, and the
\* number of sub-second digits of the unit.
UnixFormats == {"Unix", "UnixMilli", "UnixMicro", "UnixNano"}
SubSecondDigits(format) ==
    CASE format = "Unix" -> 0
      [] format = "UnixMilli" -> 3
      [] format = "UnixMicro" -> 6
      [] format = "UnixNano" -> 9
Pow10(n) ==
    CASE n = 0 -> 1
      [] n = 3 -> 1000
      [] n = 6 -> 1000000
      [] n = 9 -> 1000000000

\* An instant as a decimal count of the unit with d sub-second digits: the
\* seconds followed by the first d digits of the nanoseconds; what is finer
\* than the unit is cut off.
CountText(t, d) ==
    TextNs("integer", t.sec, (t.nsec \div Pow10(9 - d)) * Pow10(9 - d), d)

\* The rendering of an instant in a format and zone.  A count format gives the
\* count of its unit.  Every other format is rendered with the layout that
\* GetFormatLayout gives it, as the wall-clock reading in the zone with the
\* offset the zone has at the instant: the RFC3339Nano layout shows the
\* fraction of the second, the RFC3339 layout, which types.go 62-63 also gives
\* to "Layout", drops it.
RenderTime(t, format, tz) ==
    IF format \in UnixFormats THEN CountText(t, SubSecondDigits(format))
    ELSE LET off == ZoneOffset(tz, t.sec)
         IN  IF GetFormatLayout(format) = GetFormatLayout("RFC3339Nano")
             THEN TextNs("RFC3339", t.sec + off, t.nsec, off)
             ELSE TextNs("RFC3339", t.sec + off, 0, off)

\* Whether a text can be read against a format: a count format reads decimal
\* integers, a layout reads date-time texts, with or without a fraction.
Readable(str, format) ==
    IF format \in UnixFormats THEN str.kind = "integer"
    ELSE format \in FormatTypes /\ str.kind = "RFC3339"

\* The instant a readable text denotes.  The digits of a count are taken as a
\* count of the format's unit, whatever unit they were written in; a
\* wall-clock reading is taken back by the offset the text shows.
ReadTime(str, format) ==
    IF str.kind = "integer"
    THEN LET d == SubSecondDigits(format)
             w == str.off
             frac == str.nsec \div Pow10(9 - w)
         IN  IF w = d THEN Instant(str.sec, str.nsec)
             ELSE IF w > d
             THEN Instant(str.sec * Pow10(w - d) + frac \div Pow10(d),
                          (frac % Pow10(d)) * Pow10(9 - d))
             ELSE Instant(str.sec \div Pow10(d - w),
                          ((str.sec % Pow10(d - w)) * Pow10(w) + frac) * Pow10(9 - d))
    ELSE Instant(str.sec - str.off, str.nsec)

\* The format a text is read against when none is given: the first format,
\* in the order of the enumeration, that the text can be read against.
DetectFormat(str) ==
    IF str.kind = "RFC3339" THEN "RFC3339"
    ELSE IF str.kind = "integer" THEN "Unix"
    ELSE ""

GetCurrentTime(input, now) ==
    LET tz == ResolveZone(input.Timezone)
        f == ResolveFormat(input.Format)
    IN  IF tz \notin ValidZones THEN Failed(ZeroGetTimeResult, ErrInvalidTimezone)
        ELSE IF ~IsValidFormat(f) THEN Failed(ZeroGetTimeResult, ErrInvalidFormat)
        ELSE Ok([FormattedTime |-> RenderTime(now, f, tz), Timezone |-> tz,
                 Format |-> f, UnixTimestamp |-> now.sec])

FormatTime(input) ==
    LET tz == ResolveZone(input.Timezone)
        ts == input.Timestamp
        f == DetectFormat(ts)
    IN  IF ts.kind # "epoch" /\ f = ""
        THEN Failed(ZeroFormatTimeResult, ErrParseFailure)
        ELSE IF tz \notin ValidZones THEN Failed(ZeroFormatTimeResult, ErrInvalidTimezone)
        ELSE IF ~IsValidFormat(input.Format)
        THEN Failed(ZeroFormatTimeResult, ErrInvalidFormat)
        ELSE LET t == IF ts.kind = "epoch" THEN Instant(ts.sec, 0) ELSE ReadTime(ts, f)
             IN  Ok([FormattedTime |-> RenderTime(t, input.Format, tz), Timezone |-> tz,
                     Format |-> input.Format, UnixTimestamp |-> t.sec])

ParseTime(input) ==
    LET tz == ResolveZone(input.Timezone)
        str == input.TimeString
        f == IF input.Format = "" THEN DetectFormat(str) ELSE input.Format
    IN  IF tz \notin ValidZones THEN Failed(ZeroParseTimeResult, ErrInvalidTimezone)
        ELSE IF ~Readable(str, f) THEN Failed(ZeroParseTimeResult, ErrParseFailure)
        ELSE LET t == ReadTime(str, f)
             IN  Ok([UnixTimestamp |-> t.sec, RFC3339 |-> RenderTime(t, "RFC3339", tz),
                     Timezone |-> tz, IsDST |-> IsDST(tz, t.sec)])

\* types.go 90: the reference time of a timezone_info call, a time.Time; the
\* zero time stands for a reference that was not given.
TimeAt(sec) == [zero |-> FALSE, sec |-> sec]
ZeroTime == [zero |-> TRUE, sec |-> 0]

GetTimezoneInfo(input, now) ==
    LET tz == input.Timezone
        ref == IF input.ReferenceTime.zero THEN now.sec ELSE input.ReferenceTime.sec
    IN  IF tz \notin ValidZones THEN Failed(ZeroTimezoneInfo, ErrInvalidTimezone)
        ELSE Ok([Name |-> tz, Abbreviation |-> ZoneAbbreviation(tz, ref),
                 Offset |-> ZoneOffsetText(tz, ref), OffsetSeconds |-> ZoneOffset(tz, ref),
                 IsDST |-> IsDST(tz, ref), DST |-> DSTPeriod(tz, ref)])

\* Whether an operation reads the clock: GetCurrentTime once its input is
\* valid, GetTimezoneInfo for a valid zone when no reference time is given; the
\* other operations work on the instant their input carries.
ReadsNow(op, input) ==
    CASE op = "GetCurrentTime" -> GetCurrentTime(input, Instant(0, 0)).err = Nil
      [] op = "GetTimezoneInfo" -> input.Timezone \in ValidZones /\ input.ReferenceTime.zero
      [] OTHER -> FALSE

\* The fractions of a second, in nanoseconds, a clock reading may carry.
Nanos == {0, 123456789}
NoReading == Instant(0 - 1, 0)
ClockReadings(op, input, sec) ==
    IF ReadsNow(op, input) THEN {Instant(sec, ns) : ns \in Nanos} ELSE {NoReading}

\* The service operation op applied to input at clock reading now.
Service(op, input, now) ==
    CASE op = "GetCurrentTime" -> GetCurrentTime(input, now)
      [] op = "FormatTime" -> FormatTime(input)
      [] op = "ParseTime" -> ParseTime(input)
      [] op = "GetTimezoneInfo" -> GetTimezoneInfo(input, now)

\* ------------------------------------------------------------ tool registry
ToolNames == {"get_time", "format_time", "parse_time", "timezone_info"}

\* logger.go 79-84 with 88-89, 115-116, 142-143, 169-170: the four mcp.AddTool
\* calls; each binds a tool name to its own handler.
RegisterTimeTools ==
    [name \in {"get_time", "format_time", "parse_time", "timezone_info"} |-> name]

NoTools == [name \in {} |-> ""]

\* A handler that calls the service a second time when the first call failed.
ServiceAttemptsRetry(err) == IF err # Nil THEN 2 ELSE 1

\* logger.go 94-98, 121-125, 148-152, 175-179: the handler calls the service once
\* and returns on an error.
ServiceAttempts(err) == 1

\* logger.go 94, 121, 148, 175: the service operation each handler calls.
ToolOp(handler) ==
    CASE handler = "get_time" -> "GetCurrentTime"
      [] handler = "format_time" -> "FormatTime"
      [] handler = "parse_time" -> "ParseTime"
      [] handler = "timezone_info" -> "GetTimezoneInfo"

\* logger.go 96/100, 123/127, 150/154, 177/181: the tool name each handler
\* passes to recordError and recordSuccess.
ToolLabel(handler) == handler

\* logger.go 96/100, 123/127, 150/154, 177/181: the operation name each handler
\* passes to recordError and recordSuccess.
OperationName(handler) ==
    CASE handler = "get_time" -> "get_current_time"
      [] handler = "format_time" -> "format_time"
      [] handler = "parse_time" -> "parse_time"
      [] handler = "timezone_info" -> "get_timezone_info"

\* logger.go 97, 124, 151, 178: the zero value of the handler's result type.
ZeroResult(handler) ==
    CASE handler = "get_time" -> ZeroGetTimeResult
      [] handler = "format_time" -> ZeroFormatTimeResult
      [] handler = "parse_time" -> ZeroParseTimeResult
      [] handler = "timezone_info" -> ZeroTimezoneInfo

\* The inputs a caller sends to each tool.
Epoch(sec) == Text("epoch", sec, 0)
ToolInputs(name) ==
    CASE name = "get_time" ->
            {[Timezone |-> "", Format |-> ""],
             [Timezone |-> "Nowhere/Place", Format |-> "Unix"],
             [Timezone |-> "America/New_York", Format |-> "bogus"]}
      [] name = "format_time" ->
            {[Timestamp |-> Epoch(0), Format |-> "RFC3339", Timezone |-> "UTC"],
             [Timestamp |-> Garbage, Format |-> "RFC3339", Timezone |-> ""]}
      [] name = "parse_time" ->
            {[TimeString |-> Text("RFC3339", 1, 0), Format |-> "", Timezone |-> ""],
             [TimeString |-> Garbage, Format |-> "RFC3339", Timezone |-> "UTC"]}
      [] name = "timezone_info" ->
            {[Timezone |-> "America/New_York", ReferenceTime |-> TimeAt(1720094400)],
             [Timezone |-> "Nowhere/Place", ReferenceTime |-> TimeAt(0)]}

\* --------------------------------------------------------------- metrics
MetricNames == {"tool_request_duration", "time_operation_duration"}
Statuses == {"success", "error"}
MetricLabels == ToolNames \cup {"get_current_time", "get_timezone_info"}
MetricKeys == MetricNames \X MetricLabels \X Statuses

Observation(metric, name, status) == [metric |-> metric, name |-> name, status |-> status]

\* metrics.RecordToolRequestDuration and metrics.RecordTimeOperationDuration: one
\* more observation under the metric's (name, status) labels.
Observe(m, o) == [m EXCEPT ![<<o.metric, o.name, o.status>>] = @ + 1]

RECURSIVE ObserveAll(_, _)
ObserveAll(m, obs) ==
    IF obs = <<>> THEN m ELSE ObserveAll(Observe(m, Head(obs)), Tail(obs))

\* A recordError that labels its observations "success".
recordErrorAsSuccess(toolName, operationName) ==
    <<Observation("tool_request_duration", toolName, "success"),
      Observation("time_operation_duration", operationName, "success")>>

\* logger.go 203-207: the observations recordError records, in order.
recordError(toolName, operationName) ==
    <<Observation("tool_request_duration", toolName, "error"),
      Observation("time_operation_duration", operationName, "error")>>

\* logger.go 211-215: the observations recordSuccess records, in order.
recordSuccess(toolName, operationName) ==
    <<Observation("tool_request_duration", toolName, "success"),
      Observation("time_operation_duration", operationName, "success")>>

\* A handler that wraps the service's error before returning it.
HandlerReturnWrapped(handler, result, err) ==
    IF err # Nil
    THEN [ctr |-> "nil", result |-> ZeroResult(handler), err |-> "tool call failed"]
    ELSE [ctr |-> "text", result |-> result, err |-> Nil]

\* logger.go 95-109, 122-136, 149-163, 176-198: what a handler returns for the
\* (result, err) of its service call: on an error a nil CallToolResult, the zero
\* result and the error itself, otherwise a text content, the result and nil.
HandlerReturn(handler, result, err) ==
    IF err # Nil
    THEN [ctr |-> "nil", result |-> ZeroResult(handler), err |-> err]
    ELSE [ctr |-> "text", result |-> result, err |-> Nil]

\* logger.go 207: fmt.Sprintf("%s failed", toolName).
FailedMsg(toolName) ==
    CASE toolName = "get_time" -> "get_time failed"
      [] toolName = "format_time" -> "format_time failed"
      [] toolName = "parse_time" -> "parse_time failed"
      [] toolName = "timezone_info" -> "timezone_info failed"

\* logger.go 95-100: which of recordError and recordSuccess the handler calls.
HandlerRecords(handler, err) ==
    IF err # Nil
    THEN recordError(ToolLabel(handler), OperationName(handler))
    ELSE recordSuccess(ToolLabel(handler), OperationName(handler))

\* A handler whose result and err live outside the closure, one pair for all calls.
FrameShared(i) == 1

\* logger.go 94, 121, 148, 175: result and err are declared inside the handler;
\* every invocation has its own.
Frame(i) == i

CallSlots == 1..MaxCalls
NoLocals == [result |-> EmptyText, err |-> Nil]
NoCall == [pc |-> "idle", tool |-> "", handler |-> "", input |-> EmptyText]
NoResponse == [ctr |-> "none", result |-> EmptyText, err |-> Nil]

\* ------------------------------------------------------------ construction
\* An http.Handler: withMetrics around a transport handler, the health handler,
\* or the Prometheus handler.
Handler(kind, inner, transport) == [kind |-> kind, inner |-> inner, transport |-> transport]

\* server.go 142: withMetrics(handler, metrics, logger, transport).
withMetrics(inner, transport) == Handler("withMetrics", inner, transport)

\* A route /mcp with a transport label of its own.
McpRouteOwnLabel == withMetrics("streamable", "mcp")

\* server.go 63: the alias /mcp.
McpRoute == withMetrics("streamable", "streamable")

\* A main handler that mounts the metrics path whenever metrics are enabled.
MountOnMainAlways(c) == c.metricsEnabled

\* server.go 69: the metrics path is mounted on the main handler.
MountOnMain(c) == c.metricsEnabled /\ c.metricsPort = c.serverPort

\* server.go 34: a separate metrics server is set up.
SeparateMetrics(c) == c.metricsEnabled /\ c.metricsPort # c.serverPort

\* server.go 46-74: the routes of the main handler.
setupMainHandler(c) ==
    LET fixed == {"/sse", "/streamable", "/mcp", "/health"}
        paths == fixed \cup (IF MountOnMain(c) THEN {c.metricsPath} ELSE {})
    IN  [p \in paths |->
            CASE p = "/sse" -> withMetrics("sse", "sse")
              [] p = "/streamable" -> withMetrics("streamable", "streamable")
              [] p = "/mcp" -> McpRoute
              [] p = "/health" -> Handler("health", "", "")
              [] OTHER -> Handler("promhttp", "", "")]

NoMux == [p \in {} |-> Handler("", "", "")]

\* server.go 77-85: the routes of the separate metrics server.
setupMetricsServer(c) == [p \in {c.metricsPath} |-> Handler("promhttp", "", "")]

\* server.go 25-43: NewHTTPServer; MetricsServer stays nil unless a separate
\* metrics server is set up.
NewHTTPServer(c) ==
    [Server |-> TRUE,
     MetricsServer |-> SeparateMetrics(c),
     mainMux |-> setupMainHandler(c),
     metricsMux |-> IF SeparateMetrics(c) THEN setupMetricsServer(c) ELSE NoMux]

NoServer == [Server |-> FALSE, MetricsServer |-> FALSE, mainMux |-> NoMux, metricsMux |-> NoMux]

\* ------------------------------------------------------------ HTTP requests
Methods == {"GET", "POST", "OPTIONS"}
Bodies == {"request", "notification", "malformed", "late_error"}
Paths == {"/sse", "/streamable", "/mcp", "/health", "/metrics", "/stats", "/other"}

\* The JSON document of the health handler, and the empty document.
Doc(content, service, version, timestamp) ==
    [content |-> content, service |-> service, version |-> version, timestamp |-> timestamp]
NoDoc(content) == Doc(content, "", "", EmptyText)

\* What a transport handler of the MCP SDK does with the response writer for a
\* request: a sequence of WriteHeader(code) calls (the code) and Write calls (0).
TransportScript(inner, method, body) ==
    IF method = "GET"
    THEN IF inner = "sse" THEN <<200, 0>> ELSE <<405, 0>>
    ELSE CASE body = "request" -> <<0>>
           [] body = "notification" -> <<202>>
           [] body = "malformed" -> <<400, 0>>
           [] body = "late_error" -> <<200, 0, 500>>

\* net/http: the status the client gets is the first WriteHeader code, or 200
\* when the handler writes or returns without one.
SentStatus(script) ==
    IF script = <<>> THEN 200
    ELSE IF Head(script) = 0 THEN 200
    ELSE Head(script)

TransportObservation(transport, method, status) ==
    [transport |-> transport, method |-> method, status |-> status]

Response(status, headers, ctype, doc, inner, handlerCalls, recorded, captured) ==
    [status |-> status, headers |-> headers, ctype |-> ctype, doc |-> doc, inner |-> inner,
     handlerCalls |-> handlerCalls, recorded |-> recorded, captured |-> captured]

\* Response headers as name-value pairs; a response without any.
Header(name, value) == <<name, value>>
NoHeaders == {}

\* A withMetrics that allows a single origin instead of any.
CorsHeadersOneOrigin ==
    {Header("Access-Control-Allow-Origin", "https://localhost"),
     Header("Access-Control-Allow-Methods", "GET, POST, OPTIONS"),
     Header("Access-Control-Allow-Headers", "Content-Type")}

\* server.go 153-155: the CORS headers withMetrics sets.
CorsHeaders ==
    {Header("Access-Control-Allow-Origin", "*"),
     Header("Access-Control-Allow-Methods", "GET, POST, OPTIONS"),
     Header("Access-Control-Allow-Headers", "Content-Type")}

\* net/http: the headers of a response are those set before the first
\* WriteHeader or Write; what is set after it is not sent.
HeadersSent(before, script, after) ==
    IF script = <<>> THEN before \cup after ELSE before

\* A wrapper that keeps the code of the first WriteHeader call only.
RECURSIVE CapturedStatusFirst(_, _)
CapturedStatusFirst(script, code) ==
    IF script = <<>> THEN code
    ELSE IF Head(script) = 0 THEN CapturedStatusFirst(Tail(script), code)
    ELSE Head(script)

\* server.go 165, 193-196: responseWriterWrapper starts at 200 and keeps the code
\* of every WriteHeader call.
RECURSIVE CapturedStatus(_, _)
CapturedStatus(script, code) ==
    IF script = <<>> THEN code
    ELSE CapturedStatus(Tail(script), IF Head(script) = 0 THEN code ELSE Head(script))

\* server.go 143-184: the handler withMetrics returns, applied to a request: the
\* CORS headers are set first; OPTIONS is answered at once with 200; any other
\* method goes to the wrapped handler, and the request is recorded afterwards.
ServeWithMetrics(h, method, body) ==
    IF method = "OPTIONS"
    THEN Response(200, HeadersSent(CorsHeaders, <<200>>, NoHeaders), "", NoDoc(""),
                  h.inner, 0,
                  <<TransportObservation(h.transport, method, "success")>>, 200)
    ELSE LET script == TransportScript(h.inner, method, body)
             captured == CapturedStatus(script, 200)
         IN  Response(SentStatus(script), HeadersSent(CorsHeaders, script, NoHeaders), "",
                      NoDoc("mcp"), h.inner, 1,
                      <<TransportObservation(h.transport, method,
                                             IF captured >= 400 THEN "error" ELSE "success")>>,
                      captured)

\* server.go 143-168: the same handler while the wrapped handler is running,
\* after its first call on the response writer: the status and the headers are
\* sent, the wrapper holds the code seen so far, nothing is recorded yet.
StartWithMetrics(h, method, body) ==
    LET script == TransportScript(h.inner, method, body)
    IN  Response(SentStatus(script), HeadersSent(CorsHeaders, script, NoHeaders), "",
                 NoDoc("mcp"), h.inner, 1, <<>>,
                 CapturedStatus(SubSeq(script, 1, 1), 200))

\* A health handler whose timestamp is taken once, when the handler is created.
createHealthHandlerFrozen(c, now) ==
    Response(200, NoHeaders, "application/json",
             Doc("health", c.serverName, c.version, Text("RFC3339", 0, 0)),
             "", 0, <<>>, 200)

\* server.go 88-95: the health handler, applied to a request at clock reading now.
createHealthHandler(c, now) ==
    Response(200, NoHeaders, "application/json",
             Doc("health", c.serverName, c.version, Text("RFC3339", now, 0)),
             "", 0, <<>>, 200)

\* http.ServeMux with the handlers of server.go 61-70 and 79: the response of the
\* mux for a request; a path with no route gets 404.
Serve(mux, c, path, method, body, now) ==
    IF path \notin DOMAIN mux
    THEN Response(404, NoHeaders, "text/plain", NoDoc("not found"), "", 0, <<>>, 404)
    ELSE LET h == mux[path]
         IN  CASE h.kind = "withMetrics" -> ServeWithMetrics(h, method, body)
               [] h.kind = "health" -> createHealthHandler(c, now)
               [] h.kind = "promhttp" ->
                    Response(200, NoHeaders, "text/plain", NoDoc("exposition"), "", 0, <<>>, 200)

\* server.go 158-168: the requests withMetrics hands to the wrapped transport
\* handler, whose ServeHTTP it waits for: every method but OPTIONS.
Blocks(mux, path, method) ==
    /\ path \in DOMAIN mux
    /\ mux[path].kind = "withMetrics"
    /\ method # "OPTIONS"

MuxOf(l) == IF l = "main" THEN httpServer.mainMux ELSE httpServer.metricsMux

Request(l, path, method, body) ==
    [listener |-> l, path |-> path, method |-> method, body |-> body]

NoRequest ==
    [req |-> Request("", "", "", ""), now |-> 0,
     resp |-> Response(0, NoHeaders, "", NoDoc(""), "", 0, <<>>, 0)]

\* The bodies a request of a method comes with: GET and OPTIONS carry none.
RequestBodies(method) == IF method = "POST" THEN Bodies ELSE {""}

\* The requests whose handler is running, and their number.
OpenRequests == BagToSet(open)
NumOpen == BagCardinality(open)

\* server.go 93: the health handler reads the clock; no other handler's
\* response depends on it.
ReadsClock(mux, path) == path \in DOMAIN mux /\ mux[path].kind = "health"

InitState ==
    /\ clock = 0
    /\ mainPc = "new"
    /\ exitStatus = NoExit
    /\ httpServer = NoServer
    /\ logger = NoLogger
    /\ runPc = "idle"
    /\ shutting = ""
    /\ runResult = Nil
    /\ deadline = -1
    /\ startPc = "idle"
    /\ startErr = Nil
    /\ metricsPc = "idle"
    /\ listener = [l \in Listeners |-> "none"]
    /\ active = [l \in Listeners |-> 0]
    /\ inShutdown = [l \in Listeners |-> FALSE]
    /\ lnerr = [l \in Listeners |-> Nil]
    /\ shutdownRes = [l \in Listeners |-> "none"]
    /\ serverErr = <<>>
    /\ quit = <<>>
    /\ log = <<>>
    /\ sigSeen = FALSE
    /\ failedEarly = {}
    /\ tools = NoTools
    /\ calls = [i \in CallSlots |-> NoCall]
    /\ locals = [i \in CallSlots |-> NoLocals]
    /\ response = [i \in CallSlots |-> NoResponse]
    /\ metrics = [k \in MetricKeys |-> 0]
    /\ svcLog = [i \in CallSlots |-> <<>>]
    /\ emitted = [i \in CallSlots |-> <<>>]
    /\ open = EmptyBag
    /\ last = NoRequest
    /\ nvia = 0
    /\ nreq = 0
    /\ nrec = 0
    /\ probe = NoProbe

\* The process starts with a configuration loaded.
Init == cfg \in Configs /\ InitState

\* Shutdown is under way in App.Run: between taking the signal and returning.
ShuttingDown == runPc \in {"shutdown", "poll", "wait", "shutdownMetrics"}

\* The clock advances (bounded for the check; it always reaches a deadline
\* that a shutdown under way is waiting for).
Tick ==
    /\ mainPc # "exited"
    /\ clock < MaxClock \/ (ShuttingDown /\ clock < deadline)
    /\ clock' = clock + 1
    /\ UNCHANGED <<cfg, lifeVars, toolVars, webVars, timeVars>>

\* ------------------------------------------------------------------- main
\* main.go 25-29: exit status 1 iff Run's error is non-nil.
MainExitStatus(err) == IF err # Nil THEN 1 ELSE 0

\* main.go 18-22: app.New fails (configuration or logger); main prints and exits 1.
AppNewFail ==
    /\ mainPc = "new"
    /\ mainPc' = "exited"
    /\ exitStatus' = 1
    /\ log' = Append(log, LogEntry("Failed to initialize application", ErrInit))
    /\ UNCHANGED <<envVars, toolVars, webVars, timeVars, builtVars, runVars, goVars, lsnVars, chanVars, histVars>>

\* app.go New: builds the logger from the logging configuration, registers the
\* tools and builds the HTTP server from the configuration.
AppNew ==
    /\ mainPc = "new"
    /\ mainPc' = "run"
    /\ logger' = LoggerNew(cfg.logging)
    /\ tools' = RegisterTimeTools
    /\ httpServer' = NewHTTPServer(cfg)
    /\ UNCHANGED <<envVars, toolVars, webVars, timeVars, exitStatus, runVars, goVars, lsnVars, chanVars, log, histVars>>

\* main.go 25-30: Run has returned; a non-nil error is printed and exits 1.
MainExit ==
    /\ Running
    /\ runPc = "returned"
    /\ mainPc' = "exited"
    /\ exitStatus' = MainExitStatus(runResult)
    /\ log' = IF runResult # Nil
              THEN Append(log, LogEntry("Application error", runResult))
              ELSE log
    /\ UNCHANGED <<envVars, toolVars, webVars, timeVars, builtVars, runVars, goVars, lsnVars, chanVars, histVars>>

\* ---------------------------------------------------------------- App.Run
\* app.go 80-88: make(serverErr, 1); go Start(); make(quit, 1); signal.Notify.
RunStart ==
    /\ Running
    /\ runPc = "idle"
    /\ runPc' = "select"
    /\ startPc' = "begin"
    /\ UNCHANGED <<envVars, toolVars, webVars, timeVars, mainVars, builtVars, shutting, runResult, deadline,
                   startErr, metricsPc, lsnVars, chanVars, log, histVars>>

\* A termination signal is delivered: signal.Notify sends without blocking and
\* drops the signal when the buffer of one is full.
Signal(sig) ==
    /\ Running
    /\ runPc # "idle"
    /\ quit' = IF Len(quit) < 1 THEN Append(quit, sig) ELSE quit
    /\ sigSeen' = TRUE
    /\ UNCHANGED <<envVars, toolVars, webVars, timeVars, mainVars, builtVars, runVars, goVars, lsnVars,
                   serverErr, log, failedEarly>>

\* app.go 91-92, 101-103: the select takes the signal; shutdownCtx is created with
\* its deadline GracefulShutdownTimeout from now and Shutdown is called.
RunSelectQuit ==
    /\ Running
    /\ runPc = "select"
    /\ quit # <<>>
    /\ quit' = Tail(quit)
    /\ deadline' = clock + cfg.timeout
    /\ runPc' = "shutdown"
    /\ UNCHANGED <<envVars, toolVars, webVars, timeVars, mainVars, builtVars, shutting, runResult, goVars,
                   lsnVars, serverErr, log, histVars>>

\* app.go 93-95: the select takes the server error; Run logs and returns it.
RunSelectErr ==
    /\ Running
    /\ runPc = "select"
    /\ serverErr # <<>>
    /\ serverErr' = Tail(serverErr)
    /\ log' = LoggerError(logger, log, "Server failed to start", Head(serverErr))
    /\ runResult' = Head(serverErr)
    /\ runPc' = "returned"
    /\ UNCHANGED <<envVars, toolVars, webVars, timeVars, mainVars, builtVars, shutting, deadline, goVars,
                   lsnVars, quit, histVars>>

\* ------------------------------------------------------- HTTPServer.Start
\* server.go 100-109: the goroutine running Start spawns the metrics goroutine
\* when a separate metrics server exists, then goes on to serve the main listener.
StartBegin ==
    /\ Running
    /\ startPc = "begin"
    /\ startPc' = "listen"
    /\ metricsPc' = IF httpServer.MetricsServer THEN "listen" ELSE metricsPc
    /\ UNCHANGED <<envVars, toolVars, webVars, timeVars, mainVars, builtVars, runVars, startErr, lsnVars,
                   chanVars, log, histVars>>

\* What ListenAndServe does when called: ErrServerClosed at once when Shutdown
\* was already initiated, otherwise the bind succeeds or fails.
ListenOutcomes(l) ==
    IF inShutdown[l] THEN {ErrServerClosed} ELSE {Nil, ErrBind}

\* The goroutine that serves listener l has ended.
GoroutineDone(l) == IF l = "main" THEN startPc = "done" ELSE metricsPc = "done"

NoteFailure(l) == IF sigSeen THEN failedEarly ELSE failedEarly \cup {l}

\* server.go 116: s.Server.ListenAndServe() is called.
MainListen(out) ==
    /\ Running
    /\ startPc = "listen"
    /\ out \in ListenOutcomes("main")
    /\ IF out = Nil
       THEN /\ listener' = [listener EXCEPT !["main"] = "serving"]
            /\ startPc' = "serving"
            /\ UNCHANGED <<startErr, failedEarly>>
       ELSE /\ listener' = IF out = ErrBind
                           THEN [listener EXCEPT !["main"] = "failed"]
                           ELSE listener
            /\ failedEarly' = IF out = ErrBind THEN NoteFailure("main") ELSE failedEarly
            /\ startErr' = out
            /\ startPc' = "report"
    /\ UNCHANGED <<envVars, toolVars, webVars, timeVars, mainVars, builtVars, runVars, metricsPc, active,
                   inShutdown, lnerr, shutdownRes, chanVars, log, sigSeen>>

\* server.go 116: the serving main listener fails (Accept error); ListenAndServe
\* returns the error.
MainServeFail ==
    /\ Running
    /\ startPc = "serving"
    /\ listener["main"] = "serving"
    /\ listener' = [listener EXCEPT !["main"] = "failed"]
    /\ failedEarly' = NoteFailure("main")
    /\ startErr' = ErrServe
    /\ startPc' = "report"
    /\ UNCHANGED <<envVars, toolVars, webVars, timeVars, mainVars, builtVars, runVars, metricsPc, active,
                   inShutdown, lnerr, shutdownRes, chanVars, log, sigSeen>>

\* server.go 116: Shutdown closed the main listener; ListenAndServe returns
\* ErrServerClosed.
MainServeClosed ==
    /\ Running
    /\ startPc = "serving"
    /\ inShutdown["main"]
    /\ startErr' = ErrServerClosed
    /\ startPc' = "report"
    /\ UNCHANGED <<envVars, toolVars, webVars, timeVars, mainVars, builtVars, runVars, metricsPc, lsnVars,
                   chanVars, log, histVars>>

\* app.go 82: whether the goroutine reports the error Start returned.
StartReports(err) == err # Nil

\* app.go 82-83: Start returned err; a non-nil err is logged as "Server failed".
StartLog ==
    /\ Running
    /\ startPc = "report"
    /\ IF StartReports(startErr)
       THEN /\ log' = LoggerError(logger, log, "Server failed", startErr)
            /\ startPc' = "send"
       ELSE /\ startPc' = "done"
            /\ UNCHANGED log
    /\ UNCHANGED <<envVars, toolVars, webVars, timeVars, mainVars, builtVars, runVars, startErr, metricsPc,
                   lsnVars, chanVars, histVars>>

\* app.go 84: serverErr <- err, which blocks while the buffer of one is full.
StartSend ==
    /\ Running
    /\ startPc = "send"
    /\ Len(serverErr) < 1
    /\ serverErr' = Append(serverErr, startErr)
    /\ startPc' = "done"
    /\ UNCHANGED <<envVars, toolVars, webVars, timeVars, mainVars, builtVars, runVars, startErr, metricsPc,
                   lsnVars, quit, log, histVars>>

\* server.go 105: whether the metrics goroutine logs the error of ListenAndServe.
MetricsLogs(err) == err # Nil /\ err # ErrServerClosed

\* server.go 105-107: what the metrics goroutine does with the error: it logs it
\* and ends; nothing is sent to Run.
MetricsFailed(err) ==
    IF MetricsLogs(err) THEN LoggerError(logger, log, "Metrics server failed", err) ELSE log

\* server.go 105: s.MetricsServer.ListenAndServe() is called.
MetricsListen(out) ==
    /\ Running
    /\ metricsPc = "listen"
    /\ out \in ListenOutcomes("metrics")
    /\ IF out = Nil
       THEN /\ listener' = [listener EXCEPT !["metrics"] = "serving"]
            /\ metricsPc' = "serving"
            /\ UNCHANGED <<log, failedEarly>>
       ELSE /\ listener' = IF out = ErrBind
                           THEN [listener EXCEPT !["metrics"] = "failed"]
                           ELSE listener
            /\ failedEarly' = IF out = ErrBind THEN NoteFailure("metrics") ELSE failedEarly
            /\ log' = MetricsFailed(out)
            /\ metricsPc' = "done"
    /\ UNCHANGED <<envVars, toolVars, webVars, timeVars, mainVars, builtVars, runVars, startPc, startErr, active,
                   inShutdown, lnerr, shutdownRes, chanVars, sigSeen>>

\* server.go 105-107: the serving metrics listener fails.
MetricsServeFail ==
    /\ Running
    /\ metricsPc = "serving"
    /\ listener["metrics"] = "serving"
    /\ listener' = [listener EXCEPT !["metrics"] = "failed"]
    /\ failedEarly' = NoteFailure("metrics")
    /\ log' = MetricsFailed(ErrServe)
    /\ metricsPc' = "done"
    /\ UNCHANGED <<envVars, toolVars, webVars, timeVars, mainVars, builtVars, runVars, startPc, startErr, active,
                   inShutdown, lnerr, shutdownRes, chanVars, sigSeen>>

\* server.go 105: Shutdown closed the metrics listener; ErrServerClosed is not logged.
MetricsServeClosed ==
    /\ Running
    /\ metricsPc = "serving"
    /\ inShutdown["metrics"]
    /\ log' = MetricsFailed(ErrServerClosed)
    /\ metricsPc' = "done"
    /\ UNCHANGED <<envVars, toolVars, webVars, timeVars, mainVars, builtVars, runVars, startPc, startErr,
                   lsnVars, chanVars, histVars>>

\* A request arrives on a serving listener and is in flight.
ConnOpen(l) ==
    /\ Running
    /\ listener[l] = "serving"
    /\ active[l] < MaxConns
    /\ active' = [active EXCEPT ![l] = @ + 1]
    /\ UNCHANGED <<envVars, toolVars, webVars, timeVars, mainVars, builtVars, runVars, goVars, listener,
                   inShutdown, lnerr, shutdownRes, chanVars, log, histVars>>

\* An in-flight request completes.
ConnClose(l) ==
    /\ Running
    /\ active[l] > 0
    /\ active' = [active EXCEPT ![l] = @ - 1]
    /\ UNCHANGED <<envVars, toolVars, webVars, timeVars, mainVars, builtVars, runVars, goVars, listener,
                   inShutdown, lnerr, shutdownRes, chanVars, log, histVars>>

\* ---------------------------------------------------- HTTPServer.Shutdown
\* http.Server.Shutdown closes the listener first; closing a listening socket
\* may itself fail.
CloseOutcomes(l) == IF listener[l] = "serving" THEN {Nil, ErrClose} ELSE {Nil}

\* A Shutdown that gives each listener a timeout of its own.
ShutdownDeadlineFresh(ctxDeadline, now, timeout) == now + timeout

\* server.go 120, 124, 131: both http.Server.Shutdown calls get the ctx that
\* HTTPServer.Shutdown was called with, and so its deadline.
ShutdownDeadline(ctxDeadline, now, timeout) == ctxDeadline

\* http.Server.Shutdown(ctx) on listener l starts: the server is marked as
\* shutting down and its listener is closed.
BeginServerShutdown(l, ln) ==
    /\ deadline' = ShutdownDeadline(deadline, clock, cfg.timeout)
    /\ inShutdown' = [inShutdown EXCEPT ![l] = TRUE]
    /\ listener' = IF listener[l] = "serving"
                   THEN [listener EXCEPT ![l] = "closed"]
                   ELSE listener
    /\ lnerr' = [lnerr EXCEPT ![l] = ln]
    /\ shutting' = l
    /\ runPc' = "poll"

\* server.go 124: Shutdown calls s.Server.Shutdown(ctx).
ShutdownMainCall(ln) ==
    /\ Running
    /\ runPc = "shutdown"
    /\ ln \in CloseOutcomes("main")
    /\ BeginServerShutdown("main", ln)
    /\ UNCHANGED <<envVars, toolVars, webVars, timeVars, mainVars, builtVars, runResult, goVars,
                   active, shutdownRes, chanVars, log, histVars>>

\* server.go 130-131: Shutdown calls s.MetricsServer.Shutdown(ctx), with the same ctx.
ShutdownMetricsCall(ln) ==
    /\ Running
    /\ runPc = "shutdownMetrics"
    /\ ln \in CloseOutcomes("metrics")
    /\ BeginServerShutdown("metrics", ln)
    /\ UNCHANGED <<envVars, toolVars, webVars, timeVars, mainVars, builtVars, runResult, goVars,
                   active, shutdownRes, chanVars, log, histVars>>

\* server.go 124-135: what Shutdown does once http.Server.Shutdown of listener l
\* has returned err: an error ends Shutdown at once; after the main listener the
\* metrics listener follows when it exists.
ShutdownStep(l, err, hasMetrics) ==
    IF err # Nil THEN "return"
    ELSE IF l = "main" /\ hasMetrics THEN "shutdownMetrics"
    ELSE "return"

\* A Shutdown that logs the error of a listener's shutdown and then returns nil.
ShutdownResultSwallowed(err) == Nil

\* server.go 126, 133, 138: the error Shutdown returns.
ShutdownResult(err) == err

\* server.go 125, 132: the error-level message for a failed shutdown.
ForcedShutdownMsg(l) ==
    IF l = "main" THEN "Main server forced shutdown" ELSE "Metrics server forced shutdown"

\* A Run that, after Shutdown, returns an error waiting on serverErr instead.
RunReturnPending(shutdownErr, pending) ==
    IF pending # <<>> THEN Head(pending) ELSE shutdownErr

\* app.go 106: return a.httpServer.Shutdown(shutdownCtx); serverErr is not read
\* again.
RunReturn(shutdownErr, pending) == shutdownErr

\* http.Server.Shutdown of listener l returns err; HTTPServer.Shutdown goes on, and
\* when it returns so does App.Run (app.go 106), with the same error.
ServerShutdownReturns(l, err) ==
    /\ shutdownRes' = [shutdownRes EXCEPT ![l] = err]
    /\ log' = IF err # Nil THEN LoggerError(logger, log, ForcedShutdownMsg(l), err) ELSE log
    /\ LET step == ShutdownStep(l, err, httpServer.MetricsServer)
       IN  IF step = "return"
           THEN /\ runResult' = RunReturn(ShutdownResult(err), serverErr)
                /\ runPc' = "returned"
                /\ shutting' = ""
           ELSE /\ runPc' = step
                /\ UNCHANGED <<runResult, shutting>>

\* http.Server.Shutdown polls: with no request in flight it returns the error of
\* closing the listener, otherwise it waits for the poll timer or for ctx.
ShutdownPoll ==
    /\ Running
    /\ runPc = "poll"
    /\ IF active[shutting] = 0
       THEN ServerShutdownReturns(shutting, lnerr[shutting])
       ELSE /\ runPc' = "wait"
            /\ UNCHANGED <<shutting, runResult, shutdownRes, log>>
    /\ UNCHANGED <<envVars, toolVars, webVars, timeVars, mainVars, builtVars, deadline, goVars, listener, active,
                   inShutdown, lnerr, chanVars, histVars>>

\* The poll timer fires: poll again.
ShutdownRepoll ==
    /\ Running
    /\ runPc = "wait"
    /\ runPc' = "poll"
    /\ UNCHANGED <<envVars, toolVars, webVars, timeVars, mainVars, builtVars, shutting, runResult, deadline,
                   goVars, lsnVars, chanVars, log, histVars>>

\* ctx.Done(): the deadline of shutdownCtx has passed; Shutdown returns ctx.Err().
ShutdownTimeout ==
    /\ Running
    /\ runPc = "wait"
    /\ clock >= deadline
    /\ ServerShutdownReturns(shutting, DeadlineExceeded)
    /\ UNCHANGED <<envVars, toolVars, webVars, timeVars, mainVars, builtVars, deadline, goVars, listener, active,
                   inShutdown, lnerr, chanVars, histVars>>

\* ------------------------------------------------------------ tool calls
\* The MCP server dispatches a call of a registered tool to its handler.
ToolInvoke(i, name, input) ==
    /\ Running
    /\ name \in DOMAIN tools
    /\ input \in ToolInputs(name)
    /\ calls[i].pc = "idle"
    /\ \A j \in CallSlots : j < i => calls[j].pc # "idle"
    /\ calls' = [calls EXCEPT ![i] =
                    [pc |-> "called", tool |-> name, handler |-> tools[name],
                     input |-> input]]
    /\ UNCHANGED <<envVars, lifeVars, webVars, timeVars, locals, response, metrics, svcLog, emitted>>

\* logger.go 94, 121, 148, 175: result, err := timeService.<operation>(input).
ToolService(i) ==
    /\ Running
    /\ calls[i].pc = "called"
    /\ \E now \in ClockReadings(ToolOp(calls[i].handler), calls[i].input, clock) :
         LET op == ToolOp(calls[i].handler)
             out == Service(op, calls[i].input, now)
         IN  /\ locals' = [locals EXCEPT ![Frame(i)] = out]
             /\ svcLog' = [svcLog EXCEPT ![i] =
                              @ \o [k \in 1..ServiceAttempts(out.err) |->
                                      [op |-> op, input |-> calls[i].input,
                                       now |-> now, out |-> out]]]
    /\ calls' = [calls EXCEPT ![i].pc = "served"]
    /\ UNCHANGED <<envVars, lifeVars, webVars, timeVars, response, metrics, emitted>>

\* logger.go 95-109 (and the same in the other three handlers): the handler
\* records the outcome, logs an error, and returns.
ToolFinish(i) ==
    /\ Running
    /\ calls[i].pc = "served"
    /\ LET h == calls[i].handler
           loc == locals[Frame(i)]
           obs == HandlerRecords(h, loc.err)
       IN  /\ metrics' = ObserveAll(metrics, obs)
           /\ emitted' = [emitted EXCEPT ![i] = @ \o obs]
           /\ log' = IF loc.err # Nil
                     THEN LoggerError(logger, log, FailedMsg(ToolLabel(h)), loc.err)
                     ELSE log
           /\ response' = [response EXCEPT ![i] = HandlerReturn(h, loc.result, loc.err)]
    /\ locals' = [locals EXCEPT ![Frame(i)] = NoLocals]
    /\ calls' = [calls EXCEPT ![i].pc = "done"]
    /\ UNCHANGED <<envVars, webVars, timeVars, mainVars, builtVars, runVars, goVars, lsnVars,
                   chanVars, histVars, svcLog>>

\* ---------------------------------------------------------- HTTP serving
\* server.go 61-70, 79, 88-95, 143-168: a serving listener takes a request and
\* the mux hands it to the handler of its path.  The health handler, the
\* Prometheus handler, the mux's 404 and withMetrics for OPTIONS answer and
\* return; for any other method withMetrics calls the wrapped transport
\* handler, which starts the response and is still running after this step.
HandleRequest(l, path, method, body) ==
    /\ Running
    /\ listener[l] = "serving"
    /\ nreq < MaxReqs
    /\ LET mux == MuxOf(l)
           req == Request(l, path, method, body)
       IN  IF Blocks(mux, path, method)
           THEN /\ open' = open (+) SetToBag({[req |-> req,
                                               resp |-> StartWithMetrics(mux[path], method, body)]})
                /\ nvia' = nvia + 1
                /\ UNCHANGED <<last, nrec>>
           ELSE LET resp == Serve(mux, cfg, path, method, body, clock)
                IN  /\ last' = [req |-> req,
                                now |-> IF ReadsClock(mux, path) THEN clock ELSE 0,
                                resp |-> resp]
                    /\ nrec' = nrec + Len(resp.recorded)
                    /\ nvia' = nvia + Len(resp.recorded)
                    /\ UNCHANGED open
    /\ nreq' = nreq + 1
    /\ UNCHANGED <<envVars, lifeVars, toolVars, timeVars>>

\* server.go 168-184: handler.ServeHTTP returns for an open request; withMetrics
\* reads the status the wrapper captured and records the request.
HandlerReturns(r) ==
    /\ Running
    /\ BagIn(r, open)
    /\ LET h == MuxOf(r.req.listener)[r.req.path]
           resp == ServeWithMetrics(h, r.req.method, r.req.body)
       IN  /\ last' = [req |-> r.req, now |-> 0, resp |-> resp]
           /\ nrec' = nrec + Len(resp.recorded)
    /\ open' = open (-) SetToBag({r})
    /\ UNCHANGED <<envVars, lifeVars, toolVars, timeVars, nreq, nvia>>

\* ------------------------------------------------- time operations, direct
\* types.go 46: IsValidFormat(format), under a configuration whose list of
\* supported formats is supported.
CallIsValidFormat(format, supported) ==
    /\ probe' = Probe("IsValidFormat", [format |-> format, supported |-> supported],
                      IsValidFormat(format))
    /\ UNCHANGED <<envVars, lifeVars, toolVars, webVars>>

\* types.go 56: GetFormatLayout(format).
CallGetFormatLayout(format) ==
    /\ probe' = Probe("GetFormatLayout", [format |-> format], GetFormatLayout(format))
    /\ UNCHANGED <<envVars, lifeVars, toolVars, webVars>>

\* The zone names, the time texts and the reference times a caller may send.
\* The texts: date-time texts without and with a fraction, one of them
\* within the daylight-saving period of 2024, counts of seconds and of
\* milliseconds, and a text that is neither.
ZoneNames == {"", "UTC", "America/New_York", "Nowhere/Place"}
TimeTexts ==
    {Text("RFC3339", 1, 0), TextNs("RFC3339", 2 - 18000, 123456789, 0 - 18000),
     Text("RFC3339", 1720094400 - 14400, 0 - 14400),
     CountText(Instant(2, 0), 0), CountText(Instant(2, 123456789), 3), Garbage}
Timestamps == {Epoch(2), Epoch(1720094400)} \cup TimeTexts
ReferenceTimes == {ZeroTime, TimeAt(1705276800), TimeAt(1720094400)}

\* TimeService.GetCurrentTime with a GetTimeInput (types.go 82-85).
CallGetCurrentTime(tz, format) ==
    /\ \E ns \in Nanos :
         LET input == [Timezone |-> tz, Format |-> format]
         IN  probe' = Probe("GetCurrentTime", input,
                            GetCurrentTime(input, Instant(clock, ns)))
    /\ UNCHANGED <<envVars, lifeVars, toolVars, webVars>>

\* TimeService.FormatTime with a FormatTimeInput (types.go 75-79).
CallFormatTime(ts, format, tz) ==
    /\ LET input == [Timestamp |-> ts, Format |-> format, Timezone |-> tz]
       IN  probe' = Probe("FormatTime", input, FormatTime(input))
    /\ UNCHANGED <<envVars, lifeVars, toolVars, webVars>>

\* TimeService.ParseTime with a ParseTimeInput (types.go 68-72).
CallParseTime(str, format, tz) ==
    /\ LET input == [TimeString |-> str, Format |-> format, Timezone |-> tz]
       IN  probe' = Probe("ParseTime", input, ParseTime(input))
    /\ UNCHANGED <<envVars, lifeVars, toolVars, webVars>>

\* TimeService.GetTimezoneInfo with a TimezoneInfoInput (types.go 88-91).
CallGetTimezoneInfo(tz, ref) ==
    /\ \E ns \in Nanos :
         LET input == [Timezone |-> tz, ReferenceTime |-> ref]
         IN  probe' = Probe("GetTimezoneInfo", input,
                            GetTimezoneInfo(input, Instant(clock, ns)))
    /\ UNCHANGED <<envVars, lifeVars, toolVars, webVars>>

TimeNext ==
    \/ Tick
    \/ \E f \in FormatStrings, fs \in SupportedFormatLists : CallIsValidFormat(f, fs)
    \/ \E f \in FormatStrings : CallGetFormatLayout(f)
    \/ \E tz \in ZoneNames, f \in FormatStrings : CallGetCurrentTime(tz, f)
    \/ \E ts \in Timestamps, f \in FormatStrings, tz \in ZoneNames : CallFormatTime(ts, f, tz)
    \/ \E str \in TimeTexts, f \in FormatStrings, tz \in ZoneNames : CallParseTime(str, f, tz)
    \/ \E tz \in ZoneNames, ref \in ReferenceTimes : CallGetTimezoneInfo(tz, ref)

WebNext ==
    \/ AppNew
    \/ Tick
    \/ RunStart
    \/ StartBegin
    \/ \E out \in {Nil, ErrBind} : MainListen(out)
    \/ \E out \in {Nil, ErrBind} : MetricsListen(out)
    \/ \E l \in Listeners, path \in Paths, method \in Methods :
          \E body \in RequestBodies(method) : HandleRequest(l, path, method, body)
    \/ \E r \in OpenRequests : HandlerReturns(r)

ToolsNext ==
    \/ AppNew
    \/ Tick
    \/ \E i \in CallSlots, name \in ToolNames :
          \E input \in ToolInputs(name) : ToolInvoke(i, name, input)
    \/ \E i \in CallSlots : ToolService(i)
    \/ \E i \in CallSlots : ToolFinish(i)

\* The configuration of docs/tech_context.md 154-178.
ExampleConfig ==
    [metricsEnabled |-> TRUE, serverPort |-> ServerPort, metricsPort |-> AltMetricsPort,
     metricsPath |-> "/metrics", serverName |-> "time-mcp-server",
     version |-> "1.0.0", timeout |-> 1, logging |-> [level |-> "info"]]

RunNext ==
    \/ AppNew
    \/ AppNewFail
    \/ Tick
    \/ MainExit
    \/ RunStart
    \/ \E sig \in Signals : Signal(sig)
    \/ RunSelectQuit
    \/ RunSelectErr
    \/ StartBegin
    \/ \E out \in {Nil, ErrBind, ErrServerClosed} : MainListen(out)
    \/ MainServeFail
    \/ MainServeClosed
    \/ StartLog
    \/ StartSend
    \/ \E out \in {Nil, ErrBind, ErrServerClosed} : MetricsListen(out)
    \/ MetricsServeFail
    \/ MetricsServeClosed
    \/ \E l \in Listeners : ConnOpen(l)
    \/ \E l \in Listeners : ConnClose(l)
    \/ \E ln \in {Nil, ErrClose} : ShutdownMainCall(ln)
    \/ \E ln \in {Nil, ErrClose} : ShutdownMetricsCall(ln)
    \/ ShutdownPoll
    \/ ShutdownRepoll
    \/ ShutdownTimeout

Next == RunNext

Spec == Init /\ [][Next]_vars

\* The example configuration under every logging level.
ToolConfigs == {[ExampleConfig EXCEPT !.logging.level = lv] : lv \in AllLogLevels}

\* The tool handlers under concurrent invocations, with the example
\* configuration at every logging level.
InitTools == cfg \in ToolConfigs /\ InitState

SpecTools == InitTools /\ [][ToolsNext]_vars

InitWeb == cfg \in WebConfigs /\ InitState

\* The HTTP surface: construction, start of the listeners, requests.
SpecWeb == InitWeb /\ [][WebNext]_vars

\* The lifecycle under fair scheduling: time passes, the goroutines of Run and
\* Start take their steps, and a select that is offered a done context again
\* and again takes it.  Requests in flight need not ever complete.
Fairness ==
    /\ WF_vars(Tick)
    /\ WF_vars(\E ln \in {Nil, ErrClose} : ShutdownMainCall(ln))
    /\ WF_vars(\E ln \in {Nil, ErrClose} : ShutdownMetricsCall(ln))
    /\ WF_vars(ShutdownPoll)
    /\ WF_vars(ShutdownRepoll)
    /\ SF_vars(ShutdownTimeout)

SpecLive == Init /\ [][Next]_vars /\ Fairness

\* The time operations called directly, on every input of the bounded sets.
InitTime == cfg = ExampleConfig /\ InitState

SpecTime == InitTime /\ [][TimeNext]_vars

\* ======================================================== process supervisor
\* C1 (as claimed): once HTTPServer.Shutdown has returned and a separate metrics
\* listener exists, the shutdown of both listeners has been initiated, also when
\* the main listener's shutdown returned an error.
C1_ShutdownReachesBothListeners ==
    (httpServer.MetricsServer /\ runPc = "returned" /\ inShutdown["main"])
        => inShutdown["metrics"]

\* C2 (as claimed): a failure of ListenAndServe is fatal for every listener. When
\* the listener of the main or of the metrics server failed, no termination signal
\* has been delivered and the goroutine serving it has finished handling the
\* failure, then the failure is logged (as far as the logger's level admits
\* error entries) and is Run's error: it has been sent to Run or Run has
\* returned it, and an exit is with status 1.
C2_ListenerFailureIsFatal ==
    \A l \in Listeners :
        (l \in failedEarly /\ ~sigSeen /\ GoroutineDone(l))
            => /\ Enabled(logger, ErrorLevel) =>
                      \E i \in 1..Len(log) :
                          log[i].msg \in {"Server failed", "Metrics server failed"}
               /\ \/ serverErr # <<>>
                  \/ runPc = "returned" /\ runResult # Nil
               /\ (mainPc = "exited" => exitStatus = 1)

\* C3 (as claimed): when the http.Server.Shutdown of a listener ends with the
\* deadline of shutdownCtx exceeded, that error is logged as a forced shutdown
\* under every configuration, is the result of HTTPServer.Shutdown and of
\* App.Run, and the process exits with status 1.
C3_ShutdownTimeoutLoggedAtEveryLevel ==
    \A l \in Listeners :
        shutdownRes[l] = DeadlineExceeded
            => /\ Logged(ForcedShutdownMsg(l), DeadlineExceeded)
               /\ runPc = "returned"
               /\ runResult = DeadlineExceeded
               /\ (mainPc = "exited" => exitStatus = 1)

\* C3 (amended): when the http.Server.Shutdown of a listener ends with the
\* deadline of shutdownCtx exceeded, that error is the result of
\* HTTPServer.Shutdown and of App.Run, the process exits with status 1 and main
\* prints the error before it exits; the logger's forced-shutdown entry is
\* written exactly when the configured level admits error entries (it is
\* dropped at level fatal).
C3_ShutdownTimeoutIsFatal ==
    \A l \in Listeners :
        shutdownRes[l] = DeadlineExceeded
            => /\ Logged(ForcedShutdownMsg(l), DeadlineExceeded)
                     <=> Enabled(logger, ErrorLevel)
               /\ runPc = "returned"
               /\ runResult = DeadlineExceeded
               /\ (mainPc = "exited"
                     => exitStatus = 1 /\ Logged("Application error", DeadlineExceeded))

\* C3 witness: at level fatal the main listener shut down in time, the metrics
\* listener did not, and the process has exited with main's line as the only
\* output.
C3_Witness ==
    /\ mainPc = "exited"
    /\ logger.level = FatalLevel
    /\ shutdownRes["main"] = Nil
    /\ shutdownRes["metrics"] = DeadlineExceeded
    /\ exitStatus = 1
    /\ log = <<LogEntry("Application error", DeadlineExceeded)>>

\* ============================================================ tool handlers
\* C4: the registry holds exactly the four tools, and an invocation has called
\* exactly one service operation, the one of its tool, once and with the caller's
\* input; nothing is called before the handler reaches its service call, and a
\* failed call is not repeated.
C4_ToolsCallTheirOperationOnce ==
    /\ Running => DOMAIN tools = {"get_time", "format_time", "parse_time", "timezone_info"}
    /\ \A i \in CallSlots :
        LET c == calls[i]
        IN  /\ c.pc \in {"idle", "called"} => svcLog[i] = <<>>
            /\ c.pc \in {"served", "done"} =>
                /\ Len(svcLog[i]) = 1
                /\ svcLog[i][1].input = c.input
                /\ svcLog[i][1].op =
                       CASE c.tool = "get_time" -> "GetCurrentTime"
                         [] c.tool = "format_time" -> "FormatTime"
                         [] c.tool = "parse_time" -> "ParseTime"
                         [] c.tool = "timezone_info" -> "GetTimezoneInfo"

\* C4 witness: a format_time call has failed and returned after one service call.
C4_Witness ==
    \E i \in CallSlots :
        /\ calls[i].pc = "done"
        /\ calls[i].tool = "format_time"
        /\ response[i].err = ErrParseFailure
        /\ Len(svcLog[i]) = 1

\* C5: a handler that has returned gives back the service's error itself with a
\* nil CallToolResult and the zero result record when the service failed, and a
\* nil error with the service's result record when it succeeded.
C5_HandlerReturnsServiceOutcome ==
    \A i \in CallSlots :
        calls[i].pc = "done" =>
            LET out == svcLog[i][1].out
                r == response[i]
            IN  IF out.err # Nil
                THEN r.err = out.err /\ r.ctr = "nil" /\ r.result = ZeroResult(calls[i].tool)
                ELSE r.err = Nil /\ r.result = out.result

\* C5 witness: a timezone_info call has returned its InvalidTimezone error and a
\* get_time call has returned a result.
C5_Witness ==
    \E i, j \in CallSlots :
        /\ calls[i].pc = "done" /\ calls[i].tool = "timezone_info"
        /\ response[i].err = ErrInvalidTimezone
        /\ calls[j].pc = "done" /\ calls[j].tool = "get_time"
        /\ response[j].err = Nil
        /\ response[j].result.Timezone = "UTC"

RECURSIVE SumOver(_, _)
SumOver(S, m) ==
    IF S = {} THEN 0
    ELSE LET k == CHOOSE x \in S : TRUE IN m[k] + SumOver(S \ {k}, m)

Finished == {i \in CallSlots : calls[i].pc = "done"}
OutcomeStatus(i) == IF svcLog[i][1].out.err # Nil THEN "error" ELSE "success"

\* Every metric holds as many observations as calls have finished, and a call
\* that has not finished has recorded nothing.
SignalCounts ==
    /\ \A metric \in MetricNames :
          SumOver({k \in MetricKeys : k[1] = metric}, metrics) = Cardinality(Finished)
    /\ \A i \in CallSlots \ Finished : emitted[i] = <<>>

\* C6 (as claimed): a finished call has recorded one tool-request duration and
\* one time-operation duration, both with the status of its outcome and both
\* under the tool's own name.
C6_SignalsUnderToolName ==
    /\ SignalCounts
    /\ \A i \in Finished :
          emitted[i] =
              <<Observation("tool_request_duration", calls[i].tool, OutcomeStatus(i)),
                Observation("time_operation_duration", calls[i].tool, OutcomeStatus(i))>>

\* C6 (amended): a finished call has recorded one tool-request duration under the
\* tool's name and one time-operation duration under the operation's name
\* (get_current_time, format_time, parse_time, get_timezone_info), both with the
\* status of its outcome: "error" iff the service returned an error.
C6_OneSignalPairPerCall ==
    /\ SignalCounts
    /\ \A i \in Finished :
          emitted[i] =
              <<Observation("tool_request_duration", calls[i].tool, OutcomeStatus(i)),
                Observation("time_operation_duration",
                            CASE calls[i].tool = "get_time" -> "get_current_time"
                              [] calls[i].tool = "format_time" -> "format_time"
                              [] calls[i].tool = "parse_time" -> "parse_time"
                              [] calls[i].tool = "timezone_info" -> "get_timezone_info",
                            OutcomeStatus(i))>>

\* C6 witness: two calls have finished, a failed get_time and a successful
\* parse_time, and each metric holds two observations.
C6_Witness ==
    /\ \E i, j \in Finished :
          /\ calls[i].tool = "get_time" /\ response[i].err = ErrInvalidFormat
          /\ calls[j].tool = "parse_time" /\ response[j].err = Nil
    /\ metrics[<<"time_operation_duration", "get_current_time", "error">>] = 1
    /\ metrics[<<"tool_request_duration", "parse_time", "success">>] = 1

\* The response of a tool invoked alone with the input and the clock reading.
Alone(name, input, now) ==
    LET h == RegisterTimeTools[name]
        out == Service(ToolOp(h), input, now)
    IN  HandlerReturn(h, out.result, out.err)

\* C7: under every interleaving of concurrent invocations, the response of a
\* finished invocation is the one the tool gives when run alone with the same
\* input and clock reading, and a handler keeps nothing of a call once it has
\* returned: the frame of an invocation that is not between its service call and
\* its return is empty.
C7_ResponseAsIfAlone ==
    \A i \in CallSlots :
        /\ calls[i].pc = "done" =>
              response[i] = Alone(calls[i].tool, calls[i].input, svcLog[i][1].now)
        /\ calls[i].pc # "served" => locals[i] = NoLocals
        /\ calls[i].pc # "done" => response[i] = NoResponse

\* C7 witness: a call has run from start to end, and failed, while a get_time
\* call invoked before it is between its service call and its return.
C7_Witness ==
    /\ calls[1].pc = "served" /\ calls[1].tool = "get_time" /\ locals[1].err = Nil
    /\ calls[2].pc = "done" /\ response[2].err # Nil
    /\ metrics[<<"tool_request_duration", calls[2].tool, "error">>] = 1
\* ----------------------------------------------------------------- C8
MetricsOnMain ==
    /\ cfg.metricsPath \in DOMAIN httpServer.mainMux
    /\ httpServer.mainMux[cfg.metricsPath].kind = "promhttp"

MetricsOnSeparate ==
    /\ httpServer.MetricsServer
    /\ cfg.metricsPath \in DOMAIN httpServer.metricsMux
    /\ httpServer.metricsMux[cfg.metricsPath].kind = "promhttp"

PortsEqual == cfg.metricsPort = cfg.serverPort

\* C8: once the server is constructed, the metrics path is served by exactly one
\* listener when metrics are enabled and by none when they are not: a separate
\* metrics listener exists, and serves the path, iff metrics are enabled and the
\* two ports differ; the main listener serves the path iff metrics are enabled
\* and the ports are equal; never both.  A request for the metrics path is
\* answered by the Prometheus handler exactly on the listener so chosen.
C8_MetricsPathOnOneListener ==
    httpServer.Server =>
        /\ httpServer.MetricsServer <=> (cfg.metricsEnabled /\ ~PortsEqual)
        /\ MetricsOnSeparate <=> (cfg.metricsEnabled /\ ~PortsEqual)
        /\ MetricsOnMain <=> (cfg.metricsEnabled /\ PortsEqual)
        /\ ~(MetricsOnMain /\ MetricsOnSeparate)
        /\ cfg.metricsEnabled <=> (MetricsOnMain \/ MetricsOnSeparate)
        /\ (last.req.path = cfg.metricsPath /\ last.req.listener = "main")
              => (last.resp.doc.content = "exposition"
                      <=> (cfg.metricsEnabled /\ PortsEqual))
        /\ (last.req.path = cfg.metricsPath /\ last.req.listener = "metrics")
              => (last.resp.doc.content = "exposition" /\ cfg.metricsEnabled /\ ~PortsEqual)

\* The separate metrics listener has answered a request for the metrics path.
C8_Witness ==
    /\ last.req.listener = "metrics"
    /\ last.req.path = cfg.metricsPath
    /\ last.resp.status = 200
    /\ last.resp.doc.content = "exposition"

\* ----------------------------------------------------------------- C9
\* C9: a request to /sse on the main listener is handled by the SSE transport
\* handler; a request to /streamable or to its alias /mcp is handled by the
\* streamable transport handler, and its response and its recorded transport
\* metric (label "streamable") are those the same request gets on the other of
\* the two paths; while its transport handler is running, what has been sent is
\* what the same request has had sent on the other path.
C9_McpIsAliasOfStreamable ==
    /\ \A r \in OpenRequests :
          (r.req.listener = "main") =>
              /\ (r.req.path = "/sse") => r.resp.inner = "sse"
              /\ (r.req.path \in {"/streamable", "/mcp"}) =>
                    /\ r.resp.inner = "streamable"
                    /\ \A other \in {"/streamable", "/mcp"} :
                          r.resp = StartWithMetrics(httpServer.mainMux[other],
                                                    r.req.method, r.req.body)
    /\ (last.req.listener = "main") =>
        /\ (last.req.path = "/sse") =>
              /\ last.resp.inner = "sse"
              /\ \A i \in 1..Len(last.resp.recorded) : last.resp.recorded[i].transport = "sse"
        /\ (last.req.path \in {"/streamable", "/mcp"}) =>
              /\ last.resp.inner = "streamable"
              /\ Len(last.resp.recorded) > 0
              /\ \A i \in 1..Len(last.resp.recorded) :
                    last.resp.recorded[i].transport = "streamable"
              /\ \A other \in {"/streamable", "/mcp"} :
                    last.resp = Serve(httpServer.mainMux, cfg, other,
                                      last.req.method, last.req.body, last.now)

\* The alias /mcp has handled a POST through its transport handler.
C9_Witness ==
    /\ last.req.listener = "main"
    /\ last.req.path = "/mcp"
    /\ last.req.method = "POST"
    /\ last.resp.handlerCalls = 1
    /\ last.resp.inner = "streamable"

\* ----------------------------------------------------------------- C10
IsHealthResponse(r) == r.req.listener = "main" /\ r.req.path = "/health"

\* C10 as stated: every request to the health path gets status 200, content
\* type application/json and a fixed JSON document, so that any two health
\* responses are identical.
C10_HealthResponsesIdentical ==
    [][(IsHealthResponse(last) /\ IsHealthResponse(last'))
          => (/\ last'.resp.status = 200
              /\ last'.resp.ctype = "application/json"
              /\ last'.resp = last.resp)]_vars

\* C10: every request to the health path on the main listener, whatever its
\* method and whatever requests preceded it, gets status 200, content type
\* application/json and a JSON document whose status, service and version are
\* fixed by the configuration and whose timestamp is the UTC time of the request
\* in RFC3339 to the second; it passes through no transport handler and records
\* no transport metric.
C10_HealthDocumentCarriesRequestTime ==
    IsHealthResponse(last) =>
        /\ last.resp.status = 200
        /\ last.resp.ctype = "application/json"
        /\ last.resp.doc = Doc("health", cfg.serverName, cfg.version,
                               Text("RFC3339", last.now, 0))
        /\ last.resp.handlerCalls = 0
        /\ last.resp.recorded = <<>>

\* A health request answered after the clock has moved on from the start, and
\* after another request.
C10_Witness ==
    /\ IsHealthResponse(last)
    /\ nreq = 2
    /\ last.now > 0
    /\ last.resp.doc.timestamp = Text("RFC3339", last.now, 0)

\* ----------------------------------------------------------------- C11
\* C11: IsValidFormat(f) is true exactly when f is, case-sensitively, one of
\* RFC3339, RFC3339Nano, Unix, UnixMilli, UnixMicro, UnixNano, Layout, and
\* false for every other string, the empty string included, whatever the
\* configured list of supported formats is.
C11_IsValidFormatIsTheFixedSet ==
    (probe.op = "IsValidFormat") =>
        (probe.out <=>
            \/ probe.in.format = "RFC3339"
            \/ probe.in.format = "RFC3339Nano"
            \/ probe.in.format = "Unix"
            \/ probe.in.format = "UnixMilli"
            \/ probe.in.format = "UnixMicro"
            \/ probe.in.format = "UnixNano"
            \/ probe.in.format = "Layout")

\* IsValidFormat has accepted Layout under a configured list that lacks it.
C11_Witness ==
    /\ probe.op = "IsValidFormat"
    /\ probe.in.format = "Layout"
    /\ probe.in.supported = ExampleSupportedFormats
    /\ probe.out = TRUE

\* ----------------------------------------------------------------- C14
\* C14: once App.Run has taken a termination signal it eventually returns, and
\* the deadline set when the signal is taken is the only one: it does not
\* change while the listeners are shut down one after the other, and a
\* shutdown that ends with the context's error ends after that deadline.
C14_RunReturnsWithinOneDeadline ==
    /\ ShuttingDown ~> (runPc = "returned")
    /\ [][ShuttingDown => deadline' = deadline]_vars
    /\ [](\A l \in Listeners : shutdownRes[l] = DeadlineExceeded => clock >= deadline)

\* Run has returned after the main listener closed in time and the metrics
\* listener ran into the deadline.
C14_Witness ==
    /\ runPc = "returned"
    /\ sigSeen
    /\ shutdownRes["main"] = Nil
    /\ inShutdown["main"]
    /\ shutdownRes["metrics"] = DeadlineExceeded
    /\ runResult = DeadlineExceeded

\* ----------------------------------------------------------------- C15
\* What HTTPServer.Shutdown returned: the error of the first listener whose
\* shutdown failed, or nil.
ShutdownOutcome ==
    IF shutdownRes["main"] \notin {"none", Nil} THEN shutdownRes["main"]
    ELSE IF shutdownRes["metrics"] \notin {"none", Nil} THEN shutdownRes["metrics"]
    ELSE Nil

\* C15 as stated: once the main server's Start has failed and its error is
\* waiting on serverErr, a Run that is still at its select leaves it by
\* returning that error (it does not go on to Shutdown).
C15_StartFailureFirstWins ==
    [][(runPc = "select" /\ serverErr # <<>> /\ runPc' # "select")
          => (runPc' = "returned" /\ runResult' = Head(serverErr))]_vars

\* C15: Run's outcome follows what its select takes.  When it takes the start
\* error, Run returns that error, Shutdown is never called and no listener is
\* shut down.  When it takes a signal, which it may do even while a start error
\* is waiting, Shutdown is called, exactly once, and Run returns exactly what
\* Shutdown returned, never the error Start returned.
C15_RunOutcomeFollowsTheSelect ==
    /\ [](runPc = "returned" =>
            IF inShutdown["main"]
            THEN /\ sigSeen
                 /\ runResult = ShutdownOutcome
                 /\ runResult # ErrServerClosed
                 /\ runResult \notin {ErrBind, ErrServe}
            ELSE /\ runResult = startErr
                 /\ runResult \in {ErrBind, ErrServe}
                 /\ \A l \in Listeners : ~inShutdown[l] /\ shutdownRes[l] = "none")
    /\ [][(runPc # "shutdown" /\ runPc' = "shutdown")
            => (runPc = "select" /\ quit # <<>>)]_vars
    /\ [][inShutdown["main"] => runPc' # "shutdown"]_vars
    /\ [][runPc = "returned" => runPc' = "returned"]_vars

\* Run has returned Shutdown's nil result although the start error of a failed
\* bind was waiting on serverErr when the signal was taken.
C15_Witness ==
    /\ runPc = "returned"
    /\ inShutdown["main"]
    /\ serverErr = <<ErrBind>>
    /\ runResult = Nil

\* ----------------------------------------------------------------- C16
\* C16: the goroutine that runs HTTPServer.Start never blocks on reporting and
\* reports failures only: whenever it is about to send on serverErr the buffer
\* of one has room, serverErr never holds more than the one error, and the
\* ErrServerClosed that Start returns after a graceful shutdown is neither sent
\* on serverErr nor logged as "Server failed".
C16_StartGoroutineReportsOnlyFailures ==
    /\ (startPc = "send") => Len(serverErr) < 1
    /\ Len(serverErr) <= 1
    /\ \A i \in 1..Len(serverErr) : serverErr[i] # ErrServerClosed
    /\ ~Logged("Server failed", ErrServerClosed)
    /\ (startPc = "send") => startErr # ErrServerClosed

\* ----------------------------------------------------------------- C17
\* A request to one of the three paths mounted through withMetrics.
ViaWithMetrics(r) ==
    r.req.listener = "main" /\ r.req.path \in {"/sse", "/streamable", "/mcp"}

\* The code of the last WriteHeader call in a handler's calls on the response
\* writer, 200 when it makes none.
IsHeaderCode(c) == c # 0
LastHeaderCode(script) ==
    LET codes == SelectSeq(script, IsHeaderCode)
    IN  IF codes = <<>> THEN 200 ELSE codes[Len(codes)]

\* C17: a request to /sse, /streamable or /mcp records exactly one
\* transport-request metric, labelled with the transport name and the request
\* method, and records it when the wrapped handler has returned: while the
\* handler is running nothing is recorded for the request, so the registry
\* holds one observation for each request through withMetrics whose handler
\* has returned.  The status label is "error" iff the last status code the
\* wrapped handler passed to WriteHeader is >= 400 and "success" otherwise, also
\* when the handler writes without calling WriteHeader; no other request
\* records one.
C17_OneTransportMetricPerRequest ==
    /\ nrec + NumOpen = nvia
    /\ nvia <= nreq
    /\ \A r \in OpenRequests :
          /\ ViaWithMetrics(r)
          /\ r.req.method # "OPTIONS"
          /\ r.resp.handlerCalls = 1
          /\ r.resp.recorded = <<>>
    /\ ViaWithMetrics(last) =>
          LET script == IF last.req.method = "OPTIONS" THEN <<>>
                        ELSE TransportScript(IF last.req.path = "/sse" THEN "sse"
                                             ELSE "streamable",
                                             last.req.method, last.req.body)
          IN  /\ Len(last.resp.recorded) = 1
              /\ last.resp.recorded[1].transport =
                    (IF last.req.path = "/sse" THEN "sse" ELSE "streamable")
              /\ last.resp.recorded[1].method = last.req.method
              /\ last.resp.recorded[1].status =
                    (IF LastHeaderCode(script) >= 400 THEN "error" ELSE "success")
    /\ (last.req.listener # "" /\ ~ViaWithMetrics(last)) => last.resp.recorded = <<>>

\* The event stream of a GET /sse is open, with its 200 sent and nothing
\* recorded for it, while a POST taken after it, whose handler wrote an error
\* status after a 200, has returned and has been recorded as "error".
C17_Witness ==
    /\ \E r \in OpenRequests :
          /\ r.req.path = "/sse"
          /\ r.req.method = "GET"
          /\ r.resp.status = 200
          /\ r.resp.recorded = <<>>
    /\ ViaWithMetrics(last)
    /\ last.req.method = "POST"
    /\ last.req.body = "late_error"
    /\ last.resp.status = 200
    /\ last.resp.recorded[1].status = "error"
    /\ nreq = 2
    /\ nrec = 1

\* ----------------------------------------------------------------- C18
\* C18: every response through withMetrics carries the three CORS headers
\* (Allow-Origin *, Allow-Methods, Allow-Headers), which are set before anything
\* is written; an OPTIONS request gets status 200 without the wrapped handler
\* being invoked and is recorded once, as "success"; a request with any other
\* method reaches the wrapped handler exactly once, and has the three headers
\* on its response from the moment the handler starts it.
C18_CorsAndPreflight ==
    /\ \A r \in OpenRequests :
          /\ r.resp.headers =
                {<<"Access-Control-Allow-Origin", "*">>,
                 <<"Access-Control-Allow-Methods", "GET, POST, OPTIONS">>,
                 <<"Access-Control-Allow-Headers", "Content-Type">>}
          /\ r.req.method # "OPTIONS"
          /\ r.resp.handlerCalls = 1
    /\ ViaWithMetrics(last) =>
        /\ last.resp.headers =
              {<<"Access-Control-Allow-Origin", "*">>,
               <<"Access-Control-Allow-Methods", "GET, POST, OPTIONS">>,
               <<"Access-Control-Allow-Headers", "Content-Type">>}
        /\ (last.req.method = "OPTIONS") =>
              /\ last.resp.status = 200
              /\ last.resp.handlerCalls = 0
              /\ Len(last.resp.recorded) = 1
              /\ last.resp.recorded[1].status = "success"
              /\ last.resp.recorded[1].method = "OPTIONS"
        /\ (last.req.method # "OPTIONS") => last.resp.handlerCalls = 1

\* An OPTIONS request to /sse has been answered by withMetrics itself.
C18_Witness ==
    /\ ViaWithMetrics(last)
    /\ last.req.path = "/sse"
    /\ last.req.method = "OPTIONS"
    /\ last.resp.status = 200
    /\ last.resp.handlerCalls = 0
    /\ last.resp.headers # {}

====
